---- MODULE Spec2Model ----
(***************************************************************************)
(* Model of src/bi.c: main() and bi_resamp(), the bandlimited              *)
(* interpolation resampler, with the filter-table construction             *)
(* (bessel_i0, kaiser, kaiser_table, kaiser_dB).                           *)
(*                                                                         *)
(* Arithmetic.  The C program computes in IEEE-754 binary64 (double).      *)
(*  - Every double operation of bi_resamp's loop (t, n, xt, xtn, eta, l,   *)
(*    the products and sums that feed v) is modelled bit for bit: a double *)
(*    is a record [sgn, man, exp] of value sgn * man * 2^exp whose         *)
(*    mantissa is a MantBits-bit natural kept as base-2^LimbBits limbs,    *)
(*    and FAdd/FSub/FMul/FDiv round to nearest, ties to even.  Exponent    *)
(*    range is not limited (no value of the model nears the subnormal or   *)
(*    overflow range), and products are not fused with sums.               *)
(*  - The results of libm's pow, sqrt and sin are not fixed bit for bit by *)
(*    C, so the filter table is computed in fixed point with FxOne units   *)
(*    per 1.0 (the Fx* operators); every table entry is then a double that *)
(*    is a multiple of 1/FxOne, and h and hb hold that multiple.           *)
(***************************************************************************)
EXTENDS Integers, Sequences, FiniteSets, TLC


(***************************************************************************)
(* Natural numbers of any size: little-endian limbs, no leading zero limb. *)
(***************************************************************************)
LimbBits == 14

MantBits == 53

RECURSIVE Pow2(_)
Pow2(k) == IF k = 0 THEN 1 ELSE 2 * Pow2(k - 1)

Base == Pow2(LimbBits)

RECURSIVE Norm(_)
Norm(m) == IF Len(m) = 0 THEN m
           ELSE IF m[Len(m)] = 0 THEN Norm(SubSeq(m, 1, Len(m) - 1)) ELSE m

Limb(m, i) == IF i >= 1 /\ i <= Len(m) THEN m[i] ELSE 0

\* The limbs of the number whose i-th limb, before carries, is cols[i].
RECURSIVE Carry(_, _, _, _)
Carry(cols, i, cy, acc) ==
    IF i > Len(cols)
    THEN (IF cy = 0 THEN acc ELSE Append(acc, cy))
    ELSE Carry(cols, i + 1, (cols[i] + cy) \div Base, Append(acc, (cols[i] + cy) % Base))

FromNat(k) == Norm(<<k % Base, (k \div Base) % Base, k \div (Base * Base)>>)

MaxLen(a, b) == IF Len(a) > Len(b) THEN Len(a) ELSE Len(b)

AddN(a, b) == Carry([i \in 1..MaxLen(a, b) |-> Limb(a, i) + Limb(b, i)], 1, 0, <<>>)

RECURSIVE CmpFrom(_, _, _)
CmpFrom(a, b, i) == IF i = 0 THEN 0
                    ELSE IF Limb(a, i) > Limb(b, i) THEN 1
                    ELSE IF Limb(a, i) < Limb(b, i) THEN -1
                    ELSE CmpFrom(a, b, i - 1)

CmpN(a, b) == CmpFrom(a, b, MaxLen(a, b))

\* a - b for a >= b.
RECURSIVE Borrow(_, _, _, _, _)
Borrow(a, b, i, br, acc) ==
    IF i > Len(a) THEN Norm(acc)
    ELSE IF a[i] - Limb(b, i) - br < 0
         THEN Borrow(a, b, i + 1, 1, Append(acc, a[i] - Limb(b, i) - br + Base))
         ELSE Borrow(a, b, i + 1, 0, Append(acc, a[i] - Limb(b, i) - br))

SubN(a, b) == Borrow(a, b, 1, 0, <<>>)

RECURSIVE ColSum(_, _, _, _)
ColSum(a, b, k, i) ==
    IF i > Len(a) THEN 0
    ELSE (IF k - i + 1 >= 1 /\ k - i + 1 <= Len(b) THEN a[i] * b[k - i + 1] ELSE 0)
         + ColSum(a, b, k, i + 1)

MulN(a, b) == IF Len(a) = 0 \/ Len(b) = 0 THEN <<>>
              ELSE Norm(Carry([k \in 1..(Len(a) + Len(b) - 1) |-> ColSum(a, b, k, 1)], 1, 0, <<>>))

RECURSIVE BitLenLimb(_)
BitLenLimb(v) == IF v = 0 THEN 0 ELSE 1 + BitLenLimb(v \div 2)

BitLen(m) == IF Len(m) = 0 THEN 0 ELSE LimbBits * (Len(m) - 1) + BitLenLimb(m[Len(m)])

\* m * f above q zero limbs.
ShiftLimbs(m, q, f) == [i \in 1..q |-> 0] \o Carry([i \in 1..Len(m) |-> m[i] * f], 1, 0, <<>>)

ShiftLeft(m, k) == IF Len(m) = 0 THEN m ELSE ShiftLimbs(m, k \div LimbBits, Pow2(k % LimbBits))

\* m without its q low limbs, divided by f, where f * g = Base.
DropLimbs(m, q, f, g) ==
    IF q >= Len(m) THEN <<>>
    ELSE Norm([i \in 1..(Len(m) - q) |-> (m[i + q] \div f) + (Limb(m, i + q + 1) % f) * g])

ShiftRight(m, k) == DropLimbs(m, k \div LimbBits, Pow2(k % LimbBits), Pow2(LimbBits - (k % LimbBits)))

LowBitsZero(m, k) == ShiftLeft(ShiftRight(m, k), k) = m

IsOdd(m) == Len(m) > 0 /\ m[1] % 2 = 1

Double(m) == Carry([i \in 1..Len(m) |-> 2 * m[i]], 1, 0, <<>>)

\* The value of a natural of at most three limbs.
ToNat(m) == Limb(m, 1) + Base * Limb(m, 2) + Base * Base * Limb(m, 3)

(***************************************************************************)
(* IEEE-754 binary64 values and operations, round to nearest even.         *)
(***************************************************************************)
FZero == [sgn |-> 1, man |-> <<>>, exp |-> 0]

IsZero(a) == Len(a.man) = 0

\* s * q * 2^e, renormalised when rounding up carried into a new bit.
Renorm(s, q, e) ==
    IF BitLen(q) > MantBits THEN [sgn |-> s, man |-> ShiftRight(q, 1), exp |-> e + 1]
    ELSE [sgn |-> s, man |-> q, exp |-> e]

\* q rounded up when the dropped bits are above half, or half and q is odd.
RoundTie(s, q, e, half, rest) ==
    Renorm(s, IF half /\ (rest \/ IsOdd(q)) THEN AddN(q, <<1>>) ELSE q, e)

\* m has bl bits.
RoundBits(s, m, e, sticky, bl) ==
    IF bl = 0 THEN FZero
    ELSE IF bl <= MantBits
         THEN [sgn |-> s, man |-> ShiftLeft(m, MantBits - bl), exp |-> e - (MantBits - bl)]
    ELSE RoundTie(s, ShiftRight(m, bl - MantBits), e + bl - MantBits,
                  IsOdd(ShiftRight(m, bl - MantBits - 1)),
                  sticky \/ ~LowBitsZero(m, bl - MantBits - 1))

\* The double nearest to s * m * 2^e (sticky: non-zero bits were already dropped below m).
Round(s, m, e, sticky) == RoundBits(s, m, e, sticky, BitLen(m))

\* (double)i for an int i.
FromInt(i) == Round(IF i < 0 THEN -1 ELSE 1, FromNat(IF i < 0 THEN -i ELSE i), 0, FALSE)

FOne == [sgn |-> 1, man |-> ShiftLeft(<<1>>, MantBits - 1), exp |-> 1 - MantBits]

FNeg(a) == [a EXCEPT !.sgn = -a.sgn]

\* sh * mh + sl * ml, times 2^e; cmp compares mh with ml.
AddMant(sh, mh, sl, ml, e, cmp) ==
    Round(IF sh = sl \/ cmp >= 0 THEN sh ELSE sl,
          IF sh = sl THEN AddN(mh, ml)
          ELSE IF cmp = 0 THEN <<>>
          ELSE IF cmp > 0 THEN SubN(mh, ml) ELSE SubN(ml, mh),
          e, FALSE)

\* hi + lo for hi.exp >= lo.exp; mh is hi's mantissa at lo's exponent.
AddShifted(hi, lo, mh) == AddMant(hi.sgn, mh, lo.sgn, lo.man, lo.exp, CmpN(mh, lo.man))

AddAligned(hi, lo) ==
    IF hi.exp - lo.exp > MantBits + 2 THEN hi
    ELSE AddShifted(hi, lo, ShiftLeft(hi.man, hi.exp - lo.exp))

FAdd(a, b) ==
    IF IsZero(a) THEN b
    ELSE IF IsZero(b) THEN a
    ELSE AddAligned(IF a.exp >= b.exp THEN a ELSE b, IF a.exp >= b.exp THEN b ELSE a)

FSub(a, b) == FAdd(a, FNeg(b))

FMul(a, b) == IF IsZero(a) \/ IsZero(b) THEN FZero
              ELSE Round(a.sgn * b.sgn, MulN(a.man, b.man), a.exp + b.exp, FALSE)

\* d * f for a limb f.
Scale(d, f) == Norm(Carry([i \in 1..Len(d) |-> d[i] * f], 1, 0, <<>>))

\* The quotient limb of rB by d, at most guess, and the remainder; p = d * guess.
RECURSIVE DivTry(_, _, _, _)
DivTry(rB, d, guess, p) ==
    IF CmpN(p, rB) > 0 THEN DivTry(rB, d, guess - 1, Scale(d, guess - 1))
    ELSE [r |-> SubN(rB, p), digit |-> guess]

\* The guess from the leading limbs; it is at most 2 too large as d's top limb is at least Base / 2.
DivGuess(rB, d, guess) == DivTry(rB, d, IF guess >= Base THEN Base - 1 ELSE guess,
                                 Scale(d, IF guess >= Base THEN Base - 1 ELSE guess))

\* One limb of long division: rB = r * Base with r < d.
DivLimb(rB, d) ==
    DivGuess(rB, d, (Limb(rB, Len(d) + 1) * Base + Limb(rB, Len(d))) \div d[Len(d)])

\* k more quotient limbs below q.
RECURSIVE DivLimbs(_, _, _, _)
RECURSIVE DivNext(_, _, _, _)
DivLimbs(r, d, q, k) ==
    IF Len(r) = 0 THEN [q |-> [i \in 1..k |-> 0] \o q, sticky |-> FALSE]
    ELSE IF k = 0 THEN [q |-> q, sticky |-> TRUE]
    ELSE DivNext(DivLimb(<<0>> \o r, d), d, q, k)

DivNext(s, d, q, k) == DivLimbs(s.r, d, <<s.digit>> \o q, k - 1)

\* Quotient limbs computed below the leading bit: at least MantBits + 2 bits.
QuotLimbs == (MantBits + 2) \div LimbBits + 1

\* Bits to shift a mantissa so that its top limb is full.
TopShift == LimbBits - 1 - ((MantBits - 1) % LimbBits)

DivRound(s, e, res) == Round(s, Norm(res.q), e, res.sticky)

\* ma / mb with the sign s and the exponent e; first: the quotient is at least 1.
DivMant(s, ma, mb, e, first) ==
    DivRound(s, e - QuotLimbs * LimbBits,
             DivLimbs(IF first THEN SubN(ma, mb) ELSE ma, mb,
                      IF first THEN <<1>> ELSE <<>>, QuotLimbs))

DivFrom(s, ma, mb, e) == DivMant(s, ma, mb, e, CmpN(ma, mb) >= 0)

FDiv(a, b) ==
    IF IsZero(a) THEN FZero
    ELSE DivFrom(a.sgn * b.sgn, ShiftLeft(a.man, TopShift), ShiftLeft(b.man, TopShift), a.exp - b.exp)

FNegative(a) == ~IsZero(a) /\ a.sgn = -1

FLess(a, b) == FNegative(FSub(a, b))

\* The integer part of a (C's conversion of a double to an integer type).
Trunc(a) == IF IsZero(a) THEN 0
            ELSE a.sgn * ToNat(IF a.exp >= 0 THEN ShiftLeft(a.man, a.exp) ELSE ShiftRight(a.man, -a.exp))

IsIntegral(a) == IsZero(a) \/ a.exp >= 0 \/ LowBitsZero(a.man, -a.exp)

\* ceil(a), as an integer.
Ceil(a) == Trunc(a) + (IF a.sgn = 1 /\ ~IsIntegral(a) THEN 1 ELSE 0)

(***************************************************************************)
(* Fixed point for the filter table: the double r is the integer           *)
(* floor(r * FxOne).                                                       *)
(***************************************************************************)
FxOne == Pow2(10)

\* M_PI in fixed point.
PiFx == 3217

\* The series cut-off 1.0e-21 in fixed point: below one unit.
BesselEps == 1

FxMul(a, b) == (a * b) \div FxOne

FxDiv(a, b) == (a * FxOne) \div b

RECURSIVE SqrtSearch(_, _, _)
SqrtSearch(v, lo, hi) ==
    IF lo >= hi THEN lo
    ELSE LET mid == (lo + hi + 1) \div 2
         IN  IF mid * mid <= v THEN SqrtSearch(v, mid, hi) ELSE SqrtSearch(v, lo, mid - 1)

\* sqrt(a) for 0 <= a <= 1.0 (the only arguments kaiser passes).
FxSqrt(a) == SqrtSearch(a * FxOne, 0, FxOne)

\* sin(a) for a >= 0: reduced to [0, pi/2], then the Taylor polynomial to a^7.
RECURSIVE FxSin(_)
FxSin(a) ==
    LET r == a % (2 * PiFx)
    IN  IF r > PiFx THEN -FxSin(r - PiFx)
        ELSE LET s  == IF r > PiFx \div 2 THEN PiFx - r ELSE r
                 s2 == FxMul(s, s)
                 t3 == FxMul(s, s2) \div 6
                 t5 == FxMul(t3 * 6, s2) \div 120
                 t7 == FxMul(t5 * 120, s2) \div 5040
             IN  s - t3 + t5 - t7

(***************************************************************************)
(* bessel_i0: i0 = 1 + sum over i >= 1 of diff_i, diff_i =                 *)
(* pow(x/2, 2i) / pow(i!, 2), until diff_i < 1.0e-21.  pow(x/2, 2i) leaves *)
(* the fixed-point range long before the series ends, so diff_i is         *)
(* computed from diff_(i-1): diff_i = diff_(i-1) * (x/2)^2 / i^2.          *)
(***************************************************************************)
RECURSIVE BesselLoop(_, _, _, _)
BesselLoop(q, i, i0, prev) ==
    LET diff == (prev * q) \div (FxOne * i * i)
    IN  IF diff < BesselEps THEN i0 ELSE BesselLoop(q, i + 1, i0 + diff, diff)

bessel_i0(x) == BesselLoop(FxMul(x \div 2, x \div 2), 1, FxOne, FxOne)

\* kaiser(alpha, M, n): alpha in fixed point, M and n whole numbers.
kaiser(alpha, M, n) ==
    IF n < 0 \/ n > M THEN 0
    ELSE LET u == FxDiv(2 * n, M) - FxOne
         IN  FxDiv(bessel_i0(FxMul(alpha, FxSqrt(FxOne - FxMul(u, u)))), bessel_i0(alpha))

\* kaiser_table(alpha, len), when its calloc succeeds.
kaiser_table(alpha, len) ==
    LET M == (len - 1) * 2
    IN  [i \in 0..(len - 1) |-> kaiser(alpha, M, len - i - 1)]

\* The largest r with r^5 <= v * FxOne^3, i.e. floor(FxOne * (v / FxOne^2)^(1/5)).
RECURSIVE Root5Search(_, _, _)
Root5Search(v, lo, hi) ==
    IF lo >= hi THEN lo
    ELSE LET mid == (lo + hi + 1) \div 2
             m   == FromNat(mid)
             m5  == MulN(MulN(MulN(m, m), MulN(m, m)), m)
             rhs == MulN(FromNat(v), MulN(FromNat(FxOne), MulN(FromNat(FxOne), FromNat(FxOne))))
         IN  IF CmpN(m5, rhs) <= 0 THEN Root5Search(v, mid, hi) ELSE Root5Search(v, lo, mid - 1)

\* pow(d, 0.4) for d >= 0 in fixed point: the fifth root of d^2.
FxPow04(d) == Root5Search(FxMul(d, d) * FxOne, 0, 8 * FxOne)

\* kaiser_dB(dB) for a whole number of decibels dB.
kaiser_dB(dB) ==
    IF dB > 50 THEN (1102 * (dB * 10 - 87) * FxOne) \div 100000
    ELSE IF dB >= 21
         THEN (5842 * FxPow04((dB - 21) * FxOne)) \div 10000 + (7886 * (dB - 21) * FxOne) \div 100000
    ELSE 0

(***************************************************************************)
(* Constants of bi_resamp.                                                 *)
(***************************************************************************)
\* sizeof(short) * 8
n_c == 16

n_l == 1 + n_c \div 2

L == Pow2(n_l)

N_z == 5

N_h == L * N_z + 1

INT_MAX == 2147483647

SHRT_MAX == 32767

SHRT_MIN == -32768

\* kaiser_dB(80)
cutoff == kaiser_dB(80)

\* sin(sinc) / sinc for sinc = (double)i / L * M_PI, i = 1..N_h-1 (lines 163-164).
SincFactor ==
    [i \in 1..(N_h - 1) |->
        LET sinc == (i * PiFx) \div L
        IN  IF sinc = 0 THEN FxOne ELSE FxDiv(FxSin(sinc), sinc)]

\* Lines 161-167: h[i] *= sin(sinc) / sinc for i >= 1, then h[0] = 1.0.
SincTable(w) == [i \in 0..(N_h - 1) |-> IF i = 0 THEN FxOne ELSE FxMul(w[i], SincFactor[i])]

\* Backward differences: hb[i] = h[i] - h[i-1].
DiffTableBackward(hh) == [i \in 0..(N_h - 1) |-> IF i = 0 THEN 0 ELSE hh[i] - hh[i - 1]]

\* Lines 172-174: forward differences, last entry 0.
DiffTable(hh) == [i \in 0..(N_h - 1) |-> IF i = N_h - 1 THEN 0 ELSE hh[i + 1] - hh[i]]

KaiserH == kaiser_table(cutoff, N_h)

\* log2(FxOne)
FxBits == BitLen(FromNat(FxOne)) - 1

\* a * 2^k
Ldexp(a, k) == IF IsZero(a) THEN a ELSE [a EXCEPT !.exp = a.exp + k]

\* The double of a table entry kept in fixed point: k * 2^-FxBits, exactly.
FromFx(k) == Ldexp(FromInt(k), -FxBits)

(***************************************************************************)
(* strtonum(numstr, minval, maxval, &errstr) of the C library, for         *)
(* minval >= 0 and maxval <= INT_MAX: strtoll in base 10 (white space, an  *)
(* optional sign, digits), "invalid" unless digits were read up to the end *)
(* of the string, then the range check.  A string is a sequence of         *)
(* one-character strings.  A magnitude above INT_MAX is kept as `big'.     *)
(***************************************************************************)
DigitChars == <<"0", "1", "2", "3", "4", "5", "6", "7", "8", "9">>

IsDigit(c) == \E d \in 1..10 : DigitChars[d] = c

DigitVal(c) == (CHOOSE d \in 1..10 : DigitChars[d] = c) - 1

RECURSIVE SkipSpace(_, _)
SkipSpace(s, i) == IF i <= Len(s) /\ s[i] = " " THEN SkipSpace(s, i + 1) ELSE i

RECURSIVE ReadDigits(_, _, _, _)
ReadDigits(s, i, val, big) ==
    IF i <= Len(s) /\ IsDigit(s[i])
    THEN LET d == DigitVal(s[i])
         IN  IF big \/ val > (INT_MAX - d) \div 10
             THEN ReadDigits(s, i + 1, val, TRUE)
             ELSE ReadDigits(s, i + 1, val * 10 + d, FALSE)
    ELSE [ep |-> i, val |-> val, big |-> big]

\* A strtonum that does not enforce minval.
strtonum_unbounded_below(numstr, minval, maxval) ==
    LET p   == SkipSpace(numstr, 1)
        neg == p <= Len(numstr) /\ numstr[p] = "-"
        q   == IF p <= Len(numstr) /\ numstr[p] \in {"-", "+"} THEN p + 1 ELSE p
        r   == ReadDigits(numstr, q, 0, FALSE)
    IN  IF r.ep = q \/ r.ep <= Len(numstr) THEN [val |-> 0, errstr |-> "invalid"]
        ELSE IF r.big \/ r.val > maxval THEN [val |-> 0, errstr |-> "too large"]
        ELSE [val |-> IF neg THEN -r.val ELSE r.val, errstr |-> ""]

strtonum(numstr, minval, maxval) ==
    LET p   == SkipSpace(numstr, 1)
        neg == p <= Len(numstr) /\ numstr[p] = "-"
        q   == IF p <= Len(numstr) /\ numstr[p] \in {"-", "+"} THEN p + 1 ELSE p
        r   == ReadDigits(numstr, q, 0, FALSE)
    IN  IF r.ep = q \/ r.ep <= Len(numstr) THEN [val |-> 0, errstr |-> "invalid"]
        ELSE IF (neg /\ r.big) \/ (neg /\ -r.val < minval) \/ (~neg /\ ~r.big /\ r.val < minval)
             THEN [val |-> 0, errstr |-> "too small"]
        ELSE IF r.big \/ r.val > maxval THEN [val |-> 0, errstr |-> "too large"]
        ELSE [val |-> r.val, errstr |-> ""]

(***************************************************************************)
(* The program state.                                                      *)
(***************************************************************************)
VARIABLES
    pc,      \* the statement to execute next
    argc,    \* main's argc
    argv2,   \* argv[2], the rate argument
    file,    \* the input file named by argv[1]: rate, channels, frames, samples
    stderr,  \* the messages written to the error stream
    status,  \* the exit status, -1 while running
    rate,    \* main's rate
    sfinfo,  \* bi_resamp's SF_INFO
    c,       \* bi_resamp's const locals Fs, Fsp, extra, dat_len, x_len
    heap,    \* the buffers allocated so far
    x,       \* the padded input
    dat,     \* the raw interleaved input
    h,       \* the filter table (fixed point)
    hb,      \* its forward differences (fixed point)
    y,       \* the output buffer
    y_len,
    j,       \* the loop counter
    t,       \* the desired output time, a double
    it,      \* n (before += extra), eta, l and the flipped eta, l of the last iteration
    writes,  \* the indices of y assigned so far, in order
    out      \* the output file named by argv[3]

vars == <<pc, argc, argv2, file, stderr, status, rate, sfinfo, c, heap, x, dat, h, hb, y,
          y_len, j, t, it, writes, out>>

InPath == "argv[1]"

OutPath == "argv[3]"

NoFile == [samplerate |-> 0, channels |-> 0, frames |-> 0, data |-> <<>>]

NoInfo == [frames |-> 0, samplerate |-> 0, channels |-> 0]

NoLocals == [Fs |-> 0, Fsp |-> 0, extra |-> 0, dat_len |-> 0, x_len |-> 0]

NoIter == [j |-> -1, n |-> 0, eta |-> FZero, l |-> 0, eta2 |-> FZero, l2 |-> 0]

NoOutput == [created |-> FALSE, samplerate |-> 0, channels |-> 0, data |-> <<>>]

\* calloc(len, sizeof ...): a zero-filled array.
Calloc(len) == [i \in 0..(len - 1) |-> 0]

\* exit(1), and errx(1, ...) after its message.
Exit1 == pc' = "exit" /\ status' = 1

(***************************************************************************)
(* main, lines 222-241.                                                    *)
(***************************************************************************)
MainArgs ==
    /\ pc = "main"
    /\ IF argc # 4
       THEN /\ stderr' = Append(stderr, [msg |-> "usage: input rate output", arg |-> "progname"])
            /\ Exit1
       ELSE /\ pc' = "strtonum"
            /\ UNCHANGED <<stderr, status>>
    /\ UNCHANGED <<argc, argv2, file, rate, sfinfo, c, heap, x, dat, h, hb, y, y_len, j, t, it,
                   writes, out>>

MainRate ==
    /\ pc = "strtonum"
    /\ LET r == strtonum(argv2, 1, INT_MAX)
       IN  IF r.errstr # ""
           THEN /\ stderr' = Append(stderr, [msg |-> "rate is " \o r.errstr, arg |-> argv2])
                /\ Exit1
                /\ UNCHANGED rate
           ELSE /\ rate' = r.val
                /\ pc' = "sf_open"
                /\ UNCHANGED <<stderr, status>>
    /\ UNCHANGED <<argc, argv2, file, sfinfo, c, heap, x, dat, h, hb, y, y_len, j, t, it,
                   writes, out>>

(***************************************************************************)
(* bi_resamp, lines 104-220.                                               *)
(***************************************************************************)
\* Line 133: extra = rho < 1 ? ceil((double)(N_z * Fs) / Fsp) : N_z, rho = (double)Fsp / Fs.
Extra(Fs, Fsp) ==
    IF FLess(FDiv(FromInt(Fsp), FromInt(Fs)), FOne)
    THEN Ceil(FDiv(FromInt(N_z * Fs), FromInt(Fsp)))
    ELSE N_z

\* Lines 128-135.
Locals(info, r, extra) ==
    [Fs      |-> info.samplerate,
     Fsp     |-> r,
     extra   |-> extra,
     dat_len |-> info.frames * info.channels,
     x_len   |-> info.frames + 2 * extra]

\* Lines 125-135: sf_open(in, SFM_READ, &sfinfo) fails when the file is missing or
\* cannot be decoded.
OpenInput ==
    /\ pc = "sf_open"
    /\ \E ok \in BOOLEAN :
          IF ~ok
          THEN /\ stderr' = Append(stderr, [msg |-> "could not open input file", arg |-> InPath])
               /\ Exit1
               /\ UNCHANGED <<sfinfo, c>>
          ELSE /\ sfinfo' = [frames |-> file.frames, samplerate |-> file.samplerate,
                             channels |-> file.channels]
               /\ c' = Locals(sfinfo', rate, Extra(sfinfo'.samplerate, rate))
               /\ pc' = "calloc_x"
               /\ UNCHANGED <<stderr, status>>
    /\ UNCHANGED <<argc, argv2, file, rate, heap, x, dat, h, hb, y, y_len, j, t, it, writes, out>>

\* Lines 137-138.
AllocX ==
    /\ pc = "calloc_x"
    /\ \E ok \in BOOLEAN :
          IF ~ok
          THEN Exit1 /\ UNCHANGED <<x, heap>>
          ELSE /\ x' = Calloc(c.x_len)
               /\ heap' = heap \cup {"x"}
               /\ pc' = "calloc_dat"
               /\ UNCHANGED status
    /\ UNCHANGED <<argc, argv2, file, stderr, rate, sfinfo, c, dat, h, hb, y, y_len, j, t, it,
                   writes, out>>

\* Lines 140-141.
AllocDat ==
    /\ pc = "calloc_dat"
    /\ \E ok \in BOOLEAN :
          IF ~ok
          THEN Exit1 /\ UNCHANGED <<dat, heap>>
          ELSE /\ dat' = Calloc(c.dat_len)
               /\ heap' = heap \cup {"dat"}
               /\ pc' = "sf_readf"
               /\ UNCHANGED status
    /\ UNCHANGED <<argc, argv2, file, stderr, rate, sfinfo, c, x, h, hb, y, y_len, j, t, it,
                   writes, out>>

\* The frame counts sf_readf_short can return: all of them, or fewer on a read error.
ReadCounts(frames) == IF frames > 0 THEN {frames, frames - 1} ELSE {frames}

\* Lines 143-145.
ReadFrames ==
    /\ pc = "sf_readf"
    /\ \E got \in ReadCounts(sfinfo.frames) :
          IF got # sfinfo.frames
          THEN Exit1 /\ UNCHANGED dat
          ELSE /\ dat' = [i \in 0..(c.dat_len - 1) |-> file.data[i]]
               /\ pc' = "pad"
               /\ UNCHANGED status
    /\ UNCHANGED <<argc, argv2, file, stderr, rate, sfinfo, c, heap, x, h, hb, y, y_len, j, t,
                   it, writes, out>>

\* A padding that takes dat as if it held one channel.
PadSignalAllChannels(d, extra, x_len, channels) ==
    [i \in 0..(x_len - 1) |->
        IF i < extra \/ i >= x_len - extra THEN 0 ELSE d[i - extra]]

\* Lines 147-151.
PadSignal(d, extra, x_len, channels) ==
    [i \in 0..(x_len - 1) |->
        IF i < extra \/ i >= x_len - extra THEN 0 ELSE d[(i - extra) * channels]]

Pad ==
    /\ pc = "pad"
    /\ x' = PadSignal(dat, c.extra, c.x_len, sfinfo.channels)
    /\ pc' = "kaiser_table"
    /\ UNCHANGED <<argc, argv2, file, stderr, status, rate, sfinfo, c, heap, dat, h, hb, y,
                   y_len, j, t, it, writes, out>>

\* Lines 153-167: kaiser_table returns NULL when its calloc fails.
BuildH ==
    /\ pc = "kaiser_table"
    /\ \E ok \in BOOLEAN :
          IF ~ok
          THEN Exit1 /\ UNCHANGED <<h, heap>>
          ELSE /\ h' = SincTable(KaiserH)
               /\ heap' = heap \cup {"h"}
               /\ pc' = "calloc_hb"
               /\ UNCHANGED status
    /\ UNCHANGED <<argc, argv2, file, stderr, rate, sfinfo, c, x, dat, hb, y, y_len, j, t, it,
                   writes, out>>

\* Lines 169-174.
BuildHb ==
    /\ pc = "calloc_hb"
    /\ \E ok \in BOOLEAN :
          IF ~ok
          THEN Exit1 /\ UNCHANGED <<hb, heap>>
          ELSE /\ hb' = DiffTable(h)
               /\ heap' = heap \cup {"hb"}
               /\ pc' = "calloc_y"
               /\ UNCHANGED status
    /\ UNCHANGED <<argc, argv2, file, stderr, rate, sfinfo, c, x, dat, h, y, y_len, j, t, it,
                   writes, out>>

\* Line 178: y_len = (double)(sfinfo.frames * Fsp / sfinfo.samplerate), in sf_count_t.
YLen(frames, Fsp, Fs) == (frames * Fsp) \div Fs

\* Lines 176-186 up to the loop's first test.
AllocY ==
    /\ pc = "calloc_y"
    /\ y_len' = YLen(sfinfo.frames, c.Fsp, sfinfo.samplerate)
    /\ \E ok \in BOOLEAN :
          IF ~ok
          THEN Exit1 /\ UNCHANGED <<y, heap, j>>
          ELSE /\ y' = Calloc(y_len')
               /\ heap' = heap \cup {"y"}
               /\ j' = 0
               /\ pc' = "loop"
               /\ UNCHANGED status
    /\ UNCHANGED <<argc, argv2, file, stderr, rate, sfinfo, c, x, dat, h, hb, t, it, writes, out>>

(***************************************************************************)
(* The resampling loop, lines 186-212.  Reading x outside its allocation   *)
(* and converting a double outside short's range to short are undefined:   *)
(* the model takes any of a few values for them.                           *)
(***************************************************************************)
Wrap16(k) == ((k - SHRT_MIN) % (2 * (SHRT_MAX + 1))) + SHRT_MIN

\* What a read of x[idx] can give.
XRead(xx, idx) == IF idx \in DOMAIN xx THEN {xx[idx]} ELSE {SHRT_MIN, 0, SHRT_MAX}

\* What the conversion to short of a double with integer part k can give.
ShortOf(k) == IF k >= SHRT_MIN /\ k <= SHRT_MAX THEN {k} ELSE {Wrap16(k), SHRT_MIN, SHRT_MAX}

ToShort(r) == ShortOf(Trunc(r))

\* h[k] + eta * hb[k]
Coef(hh, hbb, eta, k) == FAdd(FromFx(hh[k]), FMul(eta, FromFx(hbb[k])))

\* v += xv * coef, for a short v: the sum is formed in double and converted back.
TapAdd(vs, xs, coef) ==
    UNION {ToShort(FAdd(FromInt(v), FMul(FromInt(xv), coef))) : v \in vs, xv \in xs}

\* Line 190: n = t * Fs
SourceIndex(tt, Fs) == Trunc(FMul(tt, FromInt(Fs)))

\* Line 193: eta = 1 - (xtn - t) / (xtn - xt)
EtaBetween(tt, xt, xtn) == FSub(FOne, FDiv(FSub(xtn, tt), FSub(xtn, xt)))

\* Lines 191-193.
Eta(tt, n, Fs) ==
    EtaBetween(tt, FDiv(FromInt(n), FromInt(Fs)), FDiv(FromInt(n + 1), FromInt(Fs)))

\* Lines 194 and 203: l = eta * L
TableIndex(eta) == Trunc(FMul(eta, FromInt(L)))

\* Lines 199-200 (from = n, dir = -1) and 206-207 (from = n + 1, dir = 1), from tap i
\* on: the values v can have when the loop ends.
RECURSIVE Wing(_, _, _, _, _, _, _, _, _)
Wing(vs, xx, hh, hbb, eta, l, from, dir, i) ==
    IF l + i * L < N_h
    THEN Wing(TapAdd(vs, XRead(xx, from + dir * i), Coef(hh, hbb, eta, l + i * L)),
              xx, hh, hbb, eta, l, from, dir, i + 1)
    ELSE vs

\* A loop test that lets j reach y_len.
LoopTestInclusive(jj, len) == jj <= len

\* The loop test, line 186.
LoopTest(jj, len) == jj < len

\* Lines 188-211, one iteration.  n is bound before `n += extra'.
LoopStep ==
    /\ pc = "loop"
    /\ LoopTest(j, y_len)
    /\ \E n \in {SourceIndex(t, c.Fs)} :
       \E eta \in {Eta(t, n, c.Fs)} :
       \E l \in {TableIndex(eta)} :
       \E left \in {Wing({0}, x, h, hb, eta, l, n + c.extra, -1, 0)} :
       \E eta2 \in {FSub(FOne, eta)} :
       \E l2 \in {TableIndex(eta2)} :
       \E v \in Wing(left, x, h, hb, eta2, l2, n + c.extra + 1, 1, 0) :
          /\ it' = [j |-> j, n |-> n, eta |-> eta, l |-> l, eta2 |-> eta2, l2 |-> l2]
          /\ y' = [y EXCEPT ![j] = v]
    /\ writes' = Append(writes, j)
    /\ t' = FAdd(t, FDiv(FOne, FromInt(c.Fsp)))
    /\ j' = j + 1
    /\ UNCHANGED <<pc, argc, argv2, file, stderr, status, rate, sfinfo, c, heap, x, dat, h, hb,
                   y_len, out>>

\* Lines 214-220 and main's return 0: the output file is opened for writing with
\* sfinfo's rate and channel count, and closed.
OpenOutput ==
    /\ pc = "loop"
    /\ ~LoopTest(j, y_len)
    /\ sfinfo' = [frames |-> y_len, samplerate |-> c.Fsp, channels |-> 1]
    /\ \E ok \in BOOLEAN :
          IF ~ok
          THEN /\ stderr' = Append(stderr, [msg |-> "could not open output file", arg |-> OutPath])
               /\ Exit1
               /\ UNCHANGED out
          ELSE /\ out' = [created |-> TRUE, samplerate |-> sfinfo'.samplerate,
                          channels |-> sfinfo'.channels, data |-> <<>>]
               /\ pc' = "done"
               /\ status' = 0
               /\ UNCHANGED stderr
    /\ UNCHANGED <<argc, argv2, file, rate, c, heap, x, dat, h, hb, y, y_len, j, t, it, writes>>

(***************************************************************************)
(* The inputs: the command line and the input file.                        *)
(***************************************************************************)
MaxArgc == 5

MaxRate == 3

MaxChannels == 2

MaxF == 3

RECURSIVE NumStr(_)
NumStr(k) == IF k < 10 THEN <<DigitChars[k + 1]>> ELSE Append(NumStr(k \div 10), DigitChars[(k % 10) + 1])

\* Rate arguments strtonum rejects.
BadRateArgs ==
    {<<>>, <<"x">>, <<"2", "x">>, <<"-">>, <<"0">>, <<"-", "1">>,
     Append(NumStr(INT_MAX \div 10), "8"), <<"9">> \o NumStr(INT_MAX)}

\* Spellings of rates that are only paired with an empty input file.
EdgeRateArgs == {NumStr(INT_MAX), <<" ", "+", "2">>}

Sample(sig, i) == IF sig = "ramp" THEN 100 * (i + 1) ELSE SHRT_MAX

Files(rates, chans, frames, sigs) ==
    {[samplerate |-> r, channels |-> ch, frames |-> f,
      data |-> [i \in 0..(f * ch - 1) |-> Sample(sig, i)]] :
        r \in rates, ch \in chans, f \in frames, sig \in sigs}

InitWith(rateArgs, files) ==
    /\ pc = "main"
    /\ \/ argc \in (1..MaxArgc) \ {4} /\ argv2 = <<>> /\ file = NoFile
       \/ argc = 4 /\ argv2 \in BadRateArgs /\ file = NoFile
       \/ argc = 4 /\ argv2 \in rateArgs /\ file \in files
       \/ argc = 4 /\ argv2 \in EdgeRateArgs /\ file \in {f \in files : f.frames = 0}
    /\ stderr = <<>>
    /\ status = -1
    /\ rate = 0
    /\ sfinfo = NoInfo
    /\ c = NoLocals
    /\ heap = {}
    /\ x = <<>> /\ dat = <<>> /\ h = <<>> /\ hb = <<>> /\ y = <<>>
    /\ y_len = 0
    /\ j = 0
    /\ t = FZero
    /\ it = NoIter
    /\ writes = <<>>
    /\ out = NoOutput

\* A two-frame file at full scale, whose partial sums leave short's range.
FullFiles == Files({1}, {1}, {2}, {"full"})

Init == InitWith({NumStr(r) : r \in 1..MaxRate},
                 Files(1..MaxRate, 1..MaxChannels, 0..MaxF, {"ramp"}) \cup FullFiles)

Next ==
    \/ MainArgs
    \/ MainRate
    \/ OpenInput
    \/ AllocX
    \/ AllocDat
    \/ ReadFrames
    \/ Pad
    \/ BuildH
    \/ BuildHb
    \/ AllocY
    \/ LoopStep
    \/ OpenOutput

Spec == Init /\ [][Next]_vars

\* A rate whose phase grid is finer than the table's L entries per zero-crossing.
FineRate == L + 1

InitFine == InitWith({NumStr(FineRate)}, Files({1}, {1}, 0..1, {"ramp"}))

SpecFine == InitFine /\ [][Next]_vars

(***************************************************************************)
(* Properties.                                                             *)
(***************************************************************************)
\* The taps i an inner loop visits from the table sub-index l: l + i * L < N_h.
Taps(l) == {i \in 0..(N_z + 1) : l + i * L < N_h}

\* An iteration of the resampling loop has run; `it' describes the last one.
Stepped == it.j >= 0

\* The input has been padded.
Padded == pc \in {"kaiser_table", "calloc_hb", "calloc_y", "loop", "done"}

\* C1: every index of x that the left wing (n - i) and the right wing (n + 1 + i)
\* read, n offset by extra, lies in 0..x_len-1, for every tap i visited.
C1_IndicesInsideX ==
    Stepped =>
        /\ \A i \in Taps(it.l) : it.n + c.extra - i \in 0..(c.x_len - 1)
        /\ \A i \in Taps(it.l2) : it.n + c.extra + 1 + i \in 0..(c.x_len - 1)

\* C2: when the run succeeds the output file holds exactly y_len frames of one
\* channel at rate Fsp, and they are y[0..y_len-1].
C2_OutputHoldsY ==
    pc = "done" =>
        /\ out.created
        /\ out.channels = 1
        /\ out.samplerate = rate
        /\ out.data = [k \in 1..y_len |-> y[k - 1]]

\* C3: y_len = floor(F * Fsp / Fs); the loop assigns y[0], y[1], ... in order, each
\* once and none at or beyond y_len, and when it has ended all y_len are assigned.
C3_EachIndexOnce ==
    "y" \in heap =>
        /\ y_len = (file.frames * rate) \div file.samplerate
        /\ DOMAIN y = 0..(y_len - 1)
        /\ writes = [k \in 1..Len(writes) |-> k - 1]
        /\ Len(writes) = j
        /\ j <= y_len
        /\ pc # "loop" => Len(writes) = y_len

C3_Witness ==
    /\ pc = "done"
    /\ (file.frames * rate) % file.samplerate # 0
    /\ y_len >= 4
    /\ Len(writes) = y_len

\* C4: no fatal path exits silently: an exit with status 1 has written a message.
C4_FatalErrorsReported == pc = "exit" => status = 1 /\ Len(stderr) > 0

\* C5: with the wrong number of arguments, or a rate that is no integer in
\* 1..INT_MAX, main writes one message and exits with status 1 before any file is
\* opened, any buffer allocated or the output created; bi_resamp only ever runs
\* with four arguments and 1 <= rate <= INT_MAX.
C5_ArgumentsChecked ==
    /\ (argc # 4 \/ argv2 \in BadRateArgs) =>
          /\ pc \in {"main", "strtonum", "exit"}
          /\ argc # 4 => pc # "strtonum"
          /\ pc = "exit" => status = 1 /\ Len(stderr) = 1
          /\ sfinfo = NoInfo /\ heap = {} /\ out = NoOutput
    /\ (pc \notin {"main", "strtonum", "exit"} \/ sfinfo # NoInfo \/ heap # {} \/ out # NoOutput) =>
          /\ argc = 4
          /\ rate >= 1 /\ rate <= INT_MAX

C5_Witness ==
    /\ pc = "exit"
    /\ argc = 4
    /\ argv2 = <<"0">>
    /\ Len(stderr) = 1
    /\ heap = {}

\* C6: once both tables are built, h[0] = 1.0, hb[N_h-1] = 0 and
\* hb[i] = h[i+1] - h[i] for i in 0..N_h-2, at every later state of the run.
C6_TableRelations ==
    "hb" \in heap =>
        /\ DOMAIN h = 0..(N_h - 1) /\ DOMAIN hb = 0..(N_h - 1)
        /\ h[0] = FxOne
        /\ hb[N_h - 1] = 0
        /\ \A i \in 0..(N_h - 2) : hb[i] = h[i + 1] - h[i]

C6_Witness ==
    /\ pc = "loop"
    /\ j >= 2
    /\ "hb" \in heap
    /\ \E i \in 0..(N_h - 2) : hb[i] # 0

\* C7: x has F + 2 * extra entries, extra = N_z when Fsp >= Fs and
\* ceil(N_z * Fs / Fsp) when Fsp < Fs, so extra >= N_z; the first and the last extra
\* entries are 0 and x[extra + k] is the first channel's sample of frame k.
C7_PaddedSignal ==
    Padded =>
        /\ c.extra = IF rate >= file.samplerate THEN N_z
                     ELSE (N_z * file.samplerate + rate - 1) \div rate
        /\ c.extra >= N_z
        /\ DOMAIN x = 0..(file.frames + 2 * c.extra - 1)
        /\ \A k \in 0..(c.extra - 1) : x[k] = 0 /\ x[c.extra + file.frames + k] = 0
        /\ \A k \in 0..(file.frames - 1) : x[c.extra + k] = file.data[k * file.channels]

C7_Witness ==
    /\ pc = "loop"
    /\ file.channels >= 2
    /\ file.frames >= 2
    /\ rate < file.samplerate
    /\ c.extra > N_z
    /\ x[c.extra + 1] = file.data[file.channels]

\* C8: when Fsp = Fs, y_len = F and every iteration has n = j and eta = 0; the weight
\* of x[j] is h[0] = 1 and the weight of each other sample, x[j-i] on the left
\* and x[j+1+i] on the right, is the table entry at a non-zero multiple of L.
C8_IdentityWeights ==
    (Stepped /\ c.Fsp = c.Fs) =>
        /\ y_len = file.frames
        /\ it.n = it.j
        /\ IsZero(it.eta)
        /\ it.l = 0
        /\ it.l2 = L
        /\ Coef(h, hb, it.eta, 0) = FOne
        /\ \A i \in 1..N_z : Coef(h, hb, it.eta, i * L) = FromFx(h[i * L])
        /\ \A i \in 0..(N_z - 1) : Coef(h, hb, it.eta2, L + i * L) = FromFx(h[(i + 1) * L])

\* C9: in iteration j, n = floor(j * Fs / Fsp) with 0 <= n <= F - 1, 0 <= eta < 1,
\* l is in 0..L-1 for the left wing and in 0..L for the right wing, and every table
\* index l + i * L visited is in 0..N_h-1.
C9_SourcePosition ==
    Stepped =>
        /\ it.n = (it.j * c.Fs) \div c.Fsp
        /\ it.n >= 0 /\ it.n <= file.frames - 1
        /\ ~FNegative(it.eta) /\ FLess(it.eta, FOne)
        /\ it.l \in 0..(L - 1)
        /\ it.l2 \in 0..L
        /\ \A i \in Taps(it.l) : it.l + i * L \in 0..(N_h - 1)
        /\ \A i \in Taps(it.l2) : it.l2 + i * L \in 0..(N_h - 1)

\* The sum of the products x[from + dir * i] * (h[k] + eta * hb[k]) of one wing added
\* to acc in double, with no conversion in between.
RECURSIVE WingSum(_, _, _, _, _, _)
WingSum(acc, eta, l, from, dir, i) ==
    IF l + i * L < N_h
    THEN WingSum(FAdd(acc, FMul(FromInt(x[from + dir * i]), Coef(h, hb, eta, l + i * L))),
                 eta, l, from, dir, i + 1)
    ELSE acc

\* The sum of all the terms of the last iteration.
FullSum ==
    WingSum(WingSum(FZero, it.eta, it.l, it.n + c.extra, -1, 0),
            it.eta2, it.l2, it.n + c.extra + 1, 1, 0)

\* C10: y[j] is the sum of all the terms of iteration j, left wing then right wing,
\* accumulated in full precision and converted to 16 bits once, at the end.
C10_ConvertedOnce == Stepped => y[it.j] \in ToShort(FullSum)

====
